---------------------------- MODULE Spec2Model ----------------------------
(***************************************************************************)
(* Verification model of synoptic_core.                                    *)
(*                                                                         *)
(* Part I  : core_engine/inference_engine.py, the forward-chaining         *)
(*           inference engine (ForwardChainingInferenceEngine).            *)
(* Part II : synoptic_core/core/rule_engine.py, the rule-matching engine   *)
(*           (RuleEngine) with its statement and rule models.              *)
(*                                                                         *)
(* The two engines do not call each other.  Each has its own               *)
(* specification; the variables of the other engine stay at their initial  *)
(* values.                                                                 *)
(***************************************************************************)
EXTENDS Integers, Sequences, FiniteSets, TLC

VARIABLES
    \* ---- ForwardChainingInferenceEngine -------------------------------
    rules,          \* self.rules: the rule list given to the constructor
    init_facts,     \* the constructor's facts argument (kept for reference)
    facts,          \* self.facts
    inferred,       \* self.inferred
    applied_rules,  \* run(): local list of the rules fired, as list indices
    goal,           \* run(): the goal argument, <<>> for None, <<g>> for a string g
    applied,        \* run(): the flag of the current pass
    idx,            \* run(): position of the for loop in self.rules
    ipc,            \* "ready" | "for" | "returned"
    returned,       \* value returned by the last run(), <<>> before any return
    exit,           \* how the last run() ended: "none" | "goal" | "fixpoint"
    passes,         \* passes of the while loop executed by the current run()
    runs,           \* number of run() calls made so far
    history,        \* every rule firing since construction, as list indices
    left_by_run,    \* record: facts and inferred as the last run() with no goal
                    \* left them, <<>> before any such run returned
    built_from,     \* <<>> for an engine built from caller-chosen facts; <<I>>
                    \* for one built from the facts that an engine with
                    \* initial facts I was left with by run()
    pass_start,     \* self.facts as it was when the current pass began
    caller_facts,   \* the caller's own set object given to the constructor
    held,           \* the caller holds the set get_inferred_facts() returned
    \* ---- RuleEngine -----------------------------------------------------
    enable_caching, \* self.enable_caching
    builtin_rules,  \* self.builtin_rules
    parsed,         \* the caller's ParsedData: the values of its tokens
    custom,         \* the caller's custom_rules: <<>> for None, <<list>> for a list
    outcome,        \* last apply_rules call: "none" | "ok", or the exception
                    \* it raised: "TypeError" | "IndexError" | "ValueError"
    result,         \* the list returned by the last apply_rules call
    raw,            \* apply_rules: statements before post-processing
    merged,         \* apply_rules: statements after _merge_duplicate_statements
    calls,          \* number of apply_rules calls made on this engine
    other_builtin_rules,   \* self.builtin_rules of a second RuleEngine
    other_outcome,  \* last apply_rules call on the second engine, as outcome
    other_result,   \* the list that call returned
    \* ---- post-processing passes on their own ------------------------------
    pp_in,          \* the statement list handed to the pass
    pp_out,         \* the statement list it returned
    pp_pc,          \* "input" | "merged" | "remerged" | "scored"
    \* ---- constructors of the models ------------------------------------------
    ctor_kind,      \* class of the last constructor call: "none" | "Rule" |
                    \* "LogicStatement"
    ctor_args,      \* its arguments, <<>> before any call
    ctor_out        \* "none" | "object", or the exception: "ValueError" |
                    \* "NameError"

infVars == <<rules, init_facts, facts, inferred, applied_rules, goal, applied,
             idx, ipc, returned, exit, passes, runs, history, left_by_run,
             built_from, pass_start, caller_facts, held>>

\* what only a caller's own operations change
callerVars == <<caller_facts, held>>

\* the second RuleEngine instance
otherVars == <<other_builtin_rules, other_outcome, other_result>>

reVars == <<enable_caching, builtin_rules, parsed, custom, outcome, result,
            raw, merged, calls, otherVars>>

ppVars == <<pp_in, pp_out, pp_pc>>

ctorVars == <<ctor_kind, ctor_args, ctor_out>>

vars == <<infVars, reVars, ppVars, ctorVars>>

-----------------------------------------------------------------------------
(* Bounds of the inference model *)

MaxRules == 2       \* longest rule list
MaxAnte == 2        \* most antecedents of one rule
MaxRuns == 2        \* run() calls in one scenario
MaxPasses == 6      \* passes of the while loop one run() may execute

\* Fact names are arbitrary strings; the empty string is one of them, and the
\* only one that Python treats as false.
FactNames == {"", "a", "b"}

\* goal argument of run(): None, the empty string, or a fact name
NoGoal == <<>>
GoalValues == {NoGoal} \cup {<<g>> : g \in FactNames \cup {""}}

\* Python truthiness of the goal argument: None and "" are falsy
Truthy(g) == g # <<>> /\ g[1] # ""

\* dataclass Rule(antecedents, consequent); only membership of the
\* antecedents is ever tested, so the list is kept as the set of its elements
RuleUniverse ==
    {[antecedents |-> A, consequent |-> c] :
        A \in {S \in SUBSET FactNames : Cardinality(S) <= MaxAnte},
        c \in FactNames}

RuleLists == UNION {[1..n -> RuleUniverse] : n \in 0..MaxRules}

\* The constructor's fact sets.  RuleUniverse and GoalValues are closed under
\* exchanging the non-empty fact names and the engine never inspects a
\* non-empty name, so every initial fact set is a renaming of one of these.
InitFactSets == {{}, {"a"}, {""}, {"a", "b"}, {"a", ""}, {"a", "b", ""}}

\* Python's None and Optional values: <<>> is None, <<x>> is the value x
None == <<>>
Some(x) == <<x>>

\* the variables of the rule engine and of the post-processing passes while
\* only the inference engine is exercised
ReIdle ==
    /\ enable_caching = FALSE
    /\ builtin_rules = <<>>
    /\ parsed = <<>>
    /\ custom = None
    /\ outcome = "none"
    /\ result = <<>>
    /\ raw = <<>>
    /\ merged = <<>>
    /\ calls = 0
    /\ other_builtin_rules = <<>>
    /\ other_outcome = "none"
    /\ other_result = <<>>

PpIdle ==
    /\ pp_in = <<>>
    /\ pp_out = <<>>
    /\ pp_pc = "input"

\* no constructor of the models has been called
CtorIdle ==
    /\ ctor_kind = "none"
    /\ ctor_args = None
    /\ ctor_out = "none"

-----------------------------------------------------------------------------
(* ForwardChainingInferenceEngine *)

\* __init__: self.rules = rules; self.facts = set(facts); self.inferred = set()
InfInit ==
    /\ rules \in RuleLists
    /\ init_facts \in InitFactSets
    /\ facts = init_facts
    /\ inferred = {}
    /\ applied_rules = <<>>
    /\ goal = NoGoal
    /\ applied = FALSE
    /\ idx = 0
    /\ ipc = "ready"
    /\ returned = <<>>
    /\ exit = "none"
    /\ passes = 0
    /\ runs = 0
    /\ history = <<>>
    /\ left_by_run = None
    /\ built_from = None
    /\ pass_start = init_facts
    /\ caller_facts = init_facts
    /\ held = FALSE

\* variant: any() in place of all()
AnyAntecedentHolds(rule, F) == \E x \in rule.antecedents : x \in F

\* all(antecedent in self.facts for antecedent in rule.antecedents)
AllAntecedentsHold(rule, F) == \A x \in rule.antecedents : x \in F

\* variant: run() starts by clearing self.inferred
RunClearsInferred(g) ==
    /\ ipc \in {"ready", "returned"}
    /\ runs < MaxRuns
    /\ goal' = g
    /\ applied_rules' = <<>>
    /\ applied' = FALSE
    /\ idx' = 1
    /\ ipc' = "for"
    /\ passes' = 1
    /\ runs' = runs + 1
    /\ returned' = <<>>
    /\ exit' = "none"
    /\ pass_start' = facts
    /\ inferred' = {}
    /\ UNCHANGED <<rules, init_facts, facts, history, left_by_run, built_from, callerVars>>
    /\ UNCHANGED <<reVars, ppVars, ctorVars>>

\* run(goal): entry, applied_rules = [] and the first pass of while True
Run(g) ==
    /\ ipc \in {"ready", "returned"}
    /\ runs < MaxRuns
    /\ goal' = g
    /\ applied_rules' = <<>>
    /\ applied' = FALSE
    /\ idx' = 1
    /\ ipc' = "for"
    /\ passes' = 1
    /\ runs' = runs + 1
    /\ returned' = <<>>
    /\ exit' = "none"
    /\ pass_start' = facts
    /\ UNCHANGED <<rules, init_facts, facts, inferred, history, left_by_run,
                   built_from, callerVars>>
    /\ UNCHANGED <<reVars, ppVars, ctorVars>>

\* variant: a rule whose consequent is already known and whose antecedents
\* hold is recorded in self.inferred again
RuleKnownInfersAgain ==
    /\ ipc = "for"
    /\ idx <= Len(rules)
    /\ rules[idx].consequent \in facts
    /\ idx' = idx + 1
    /\ inferred' = IF AllAntecedentsHold(rules[idx], facts)
                     THEN inferred \cup {rules[idx].consequent}
                     ELSE inferred
    /\ UNCHANGED <<rules, init_facts, facts, applied_rules, goal,
                   applied, ipc, returned, exit, passes, runs, history,
                   left_by_run, built_from, pass_start,
                   callerVars>>
    /\ UNCHANGED <<reVars, ppVars, ctorVars>>

\* for rule in self.rules: consequent already known -> continue
RuleKnown ==
    /\ ipc = "for"
    /\ idx <= Len(rules)
    /\ rules[idx].consequent \in facts
    /\ idx' = idx + 1
    /\ UNCHANGED <<rules, init_facts, facts, inferred, applied_rules, goal,
                   applied, ipc, returned, exit, passes, runs, history,
                   left_by_run, built_from, pass_start,
                   callerVars>>
    /\ UNCHANGED <<reVars, ppVars, ctorVars>>

\* variant: the antecedents are looked up in the facts the pass began with
RuleBlockedOnSnapshot ==
    /\ ipc = "for"
    /\ idx <= Len(rules)
    /\ rules[idx].consequent \notin facts
    /\ ~AllAntecedentsHold(rules[idx], pass_start)
    /\ idx' = idx + 1
    /\ UNCHANGED <<rules, init_facts, facts, inferred, applied_rules, goal,
                   applied, ipc, returned, exit, passes, runs, history,
                   left_by_run, built_from, pass_start, callerVars>>
    /\ UNCHANGED <<reVars, ppVars, ctorVars>>

\* for rule in self.rules: some antecedent is missing, nothing happens
RuleBlocked ==
    /\ ipc = "for"
    /\ idx <= Len(rules)
    /\ rules[idx].consequent \notin facts
    /\ ~AllAntecedentsHold(rules[idx], facts)
    /\ idx' = idx + 1
    /\ UNCHANGED <<rules, init_facts, facts, inferred, applied_rules, goal,
                   applied, ipc, returned, exit, passes, runs, history,
                   left_by_run, built_from, pass_start,
                   callerVars>>
    /\ UNCHANGED <<reVars, ppVars, ctorVars>>

\* if goal and rule.consequent == goal
GoalHit(g, c) == Truthy(g) /\ c = g[1]

\* variant: the firing is recorded but the consequent is not added to facts
RuleFiresForgetsFact ==
    /\ ipc = "for"
    /\ idx <= Len(rules)
    /\ rules[idx].consequent \notin facts
    /\ AllAntecedentsHold(rules[idx], facts)
    /\ facts' = facts
    /\ inferred' = inferred \cup {rules[idx].consequent}
    /\ applied_rules' = Append(applied_rules, idx)
    /\ history' = Append(history, idx)
    /\ applied' = TRUE
    /\ IF GoalHit(goal, rules[idx].consequent)
         THEN /\ ipc' = "returned"
              /\ returned' = <<TRUE>>
              /\ exit' = "goal"
              /\ idx' = idx
         ELSE /\ idx' = idx + 1
              /\ UNCHANGED <<ipc, returned, exit>>
    /\ UNCHANGED <<rules, init_facts, goal, passes, runs, left_by_run,
                   built_from, pass_start, callerVars>>
    /\ UNCHANGED <<reVars, ppVars, ctorVars>>

\* for rule in self.rules: the rule fires; return True when it asserts the goal
RuleFires ==
    /\ ipc = "for"
    /\ idx <= Len(rules)
    /\ rules[idx].consequent \notin facts
    /\ AllAntecedentsHold(rules[idx], facts)
    /\ facts' = facts \cup {rules[idx].consequent}
    /\ inferred' = inferred \cup {rules[idx].consequent}
    /\ applied_rules' = Append(applied_rules, idx)
    /\ history' = Append(history, idx)
    /\ applied' = TRUE
    /\ IF GoalHit(goal, rules[idx].consequent)
         THEN /\ ipc' = "returned"
              /\ returned' = <<TRUE>>
              /\ exit' = "goal"
              /\ idx' = idx
         ELSE /\ idx' = idx + 1
              /\ UNCHANGED <<ipc, returned, exit>>
    /\ UNCHANGED <<rules, init_facts, goal, passes, runs, left_by_run,
                   built_from, pass_start,
                   callerVars>>
    /\ UNCHANGED <<reVars, ppVars, ctorVars>>

\* variant: the flag is not reset at the start of a pass
NextPassKeepsFlag ==
    /\ ipc = "for"
    /\ idx = Len(rules) + 1
    /\ applied
    /\ passes < MaxPasses
    /\ applied' = applied
    /\ idx' = 1
    /\ passes' = passes + 1
    /\ pass_start' = facts
    /\ UNCHANGED <<rules, init_facts, facts, inferred, applied_rules, goal,
                   ipc, returned, exit, runs, history, left_by_run,
                   built_from, callerVars>>
    /\ UNCHANGED <<reVars, ppVars, ctorVars>>

\* end of the for loop with applied = True: next pass of while True
NextPass ==
    /\ ipc = "for"
    /\ idx = Len(rules) + 1
    /\ applied
    /\ passes < MaxPasses
    /\ applied' = FALSE
    /\ idx' = 1
    /\ passes' = passes + 1
    /\ pass_start' = facts
    /\ UNCHANGED <<rules, init_facts, facts, inferred, applied_rules, goal,
                   ipc, returned, exit, runs, history, left_by_run,
                   built_from, callerVars>>
    /\ UNCHANGED <<reVars, ppVars, ctorVars>>

\* variant: the goal is looked up in self.inferred
FinalResultFromInferred(g, F) == IF Truthy(g) THEN g[1] \in inferred ELSE TRUE

\* return goal in self.facts if goal else True
FinalResult(g, F) == IF Truthy(g) THEN g[1] \in F ELSE TRUE

\* variant: run() returns at the end of a pass whether or not a rule fired
FixpointAfterOnePass ==
    /\ ipc = "for"
    /\ idx = Len(rules) + 1
    /\ ipc' = "returned"
    /\ returned' = <<FinalResult(goal, facts)>>
    /\ exit' = "fixpoint"
    /\ left_by_run' = IF goal = NoGoal
                        THEN Some([facts |-> facts, inferred |-> inferred])
                        ELSE left_by_run
    /\ UNCHANGED <<rules, init_facts, facts, inferred, applied_rules, goal,
                   applied, idx, passes, runs, history, built_from, pass_start,
                   callerVars>>
    /\ UNCHANGED <<reVars, ppVars, ctorVars>>

\* end of the for loop with applied = False: break and return
Fixpoint ==
    /\ ipc = "for"
    /\ idx = Len(rules) + 1
    /\ ~applied
    /\ ipc' = "returned"
    /\ returned' = <<FinalResult(goal, facts)>>
    /\ exit' = "fixpoint"
    /\ left_by_run' = IF goal = NoGoal
                        THEN Some([facts |-> facts, inferred |-> inferred])
                        ELSE left_by_run
    /\ UNCHANGED <<rules, init_facts, facts, inferred, applied_rules, goal,
                   applied, idx, passes, runs, history, built_from, pass_start,
                   callerVars>>
    /\ UNCHANGED <<reVars, ppVars, ctorVars>>

\* ForwardChainingInferenceEngine(engine.rules, engine.facts), called once
\* run() with no goal has returned: a second engine with the same rules whose
\* initial facts are the facts the first one was left with
Rebuild ==
    /\ ipc = "returned"
    /\ goal = NoGoal
    /\ built_from = None
    /\ built_from' = Some(init_facts)
    /\ init_facts' = facts
    /\ facts' = facts
    /\ inferred' = {}
    /\ applied_rules' = <<>>
    /\ goal' = NoGoal
    /\ applied' = FALSE
    /\ idx' = 0
    /\ ipc' = "ready"
    /\ returned' = <<>>
    /\ exit' = "none"
    /\ passes' = 0
    /\ history' = <<>>
    /\ left_by_run' = None
    /\ pass_start' = facts
    /\ caller_facts' = facts
    /\ held' = FALSE
    /\ UNCHANGED <<rules, runs>>
    /\ UNCHANGED <<reVars, ppVars, ctorVars>>

\* one for loop of run() without a goal, from list position i on: the facts
\* it leaves when it starts with the facts F
RECURSIVE PassOver(_, _, _)
PassOver(R, F, i) ==
    IF i > Len(R)
      THEN F
      ELSE IF R[i].consequent \notin F /\ AllAntecedentsHold(R[i], F)
             THEN PassOver(R, F \cup {R[i].consequent}, i + 1)
             ELSE PassOver(R, F, i + 1)

\* run() without a goal as a function: the facts of an engine that started
\* with the facts F, after passes repeated until one fires no rule
RECURSIVE RunNoGoal(_, _)
RunNoGoal(R, F) ==
    LET G == PassOver(R, F, 1)
    IN  IF G = F THEN F ELSE RunNoGoal(R, G)

\* self.inferred of a fresh engine on F after run() without a goal
InferredNoGoal(R, F) == RunNoGoal(R, F) \ F

InfNext ==
    \/ \E g \in GoalValues : Run(g)
    \/ RuleKnown
    \/ RuleBlocked
    \/ RuleFires
    \/ NextPass
    \/ Fixpoint
    \/ Rebuild

Init == InfInit /\ ReIdle /\ PpIdle /\ CtorIdle
Next == InfNext
Spec == Init /\ [][Next]_vars

\* run() is synchronous code: once called, it keeps executing its next step
RunStep == RuleKnown \/ RuleBlocked \/ RuleFires \/ NextPass \/ Fixpoint

\* the first run() call on an engine.  A later call starts from rules and
\* facts that are, up to renaming, those of a newly built engine.
FirstRun(g) == runs = 0 /\ Run(g)

LiveNext ==
    \/ \E g \in GoalValues : FirstRun(g)
    \/ RunStep

LiveSpec == Init /\ [][LiveNext]_vars /\ WF_vars(RunStep)

\* the engine is not inside run(): the caller's code is executing
AtCaller == ipc \in {"ready", "returned"}

\* between the constructor and run(), the caller adds x to the set object it
\* passed to the constructor; self.facts = set(facts) is another object
CallerMutatesFacts(x) ==
    /\ ipc = "ready"
    /\ x \notin caller_facts
    /\ caller_facts' = caller_facts \cup {x}
    /\ UNCHANGED <<rules, init_facts, facts, inferred, applied_rules, goal,
                   applied, idx, ipc, returned, exit, passes, runs, history,
                   left_by_run, built_from, pass_start, held>>
    /\ UNCHANGED <<reVars, ppVars, ctorVars>>

\* get_inferred_facts() after run() has returned: return self.inferred, the
\* set object itself
GetInferredFacts ==
    /\ ipc = "returned"
    /\ ~held
    /\ held' = TRUE
    /\ UNCHANGED <<rules, init_facts, facts, inferred, applied_rules, goal,
                   applied, idx, ipc, returned, exit, passes, runs, history,
                   left_by_run, built_from, pass_start, caller_facts>>
    /\ UNCHANGED <<reVars, ppVars, ctorVars>>

\* the caller adds x to, or discards x from, the set get_inferred_facts()
\* returned: that set is self.inferred
CallerMutatesInferred(x) ==
    /\ ipc = "returned"
    /\ held
    /\ inferred' = IF x \in inferred THEN inferred \ {x} ELSE inferred \cup {x}
    /\ UNCHANGED <<rules, init_facts, facts, applied_rules, goal,
                   applied, idx, ipc, returned, exit, passes, runs, history,
                   left_by_run, built_from, pass_start, callerVars>>
    /\ UNCHANGED <<reVars, ppVars, ctorVars>>

\* the first run() of an engine, interleaved with what its caller does to
\* the sets it shares or believes it shares with the engine
AliasNext ==
    \/ \E g \in GoalValues : FirstRun(g)
    \/ RunStep
    \/ \E x \in FactNames : CallerMutatesFacts(x)
    \/ GetInferredFacts
    \/ \E x \in FactNames : CallerMutatesInferred(x)

SpecAlias == Init /\ [][AliasNext]_vars

-----------------------------------------------------------------------------
(* Properties of the inference engine *)

\* F is closed under the rule list R
IsClosed(R, F) ==
    \A i \in DOMAIN R : R[i].antecedents \subseteq F => R[i].consequent \in F

\* F is the least set that contains I and is closed under R
IsLeastClosure(R, I, F) ==
    /\ I \subseteq F
    /\ IsClosed(R, F)
    /\ \A G \in SUBSET FactNames : (I \subseteq G /\ IsClosed(R, G)) => F \subseteq G

\* the least closure of I under R
LeastClosure(R, I) == CHOOSE F \in SUBSET FactNames : IsLeastClosure(R, I, F)

\* facts known just before the k-th firing recorded in history
KnownBefore(k) == init_facts \cup {rules[history[j]].consequent : j \in 1..(k - 1)}

\* every firing had all its antecedents known when it happened, and every
\* fact is initial or the consequent of such a firing
Justified ==
    /\ \A k \in DOMAIN history :
          rules[history[k]].antecedents \subseteq KnownBefore(k)
    /\ facts = KnownBefore(Len(history) + 1)

\* C1: after run() with no goal, facts is exactly the least closure of the
\* initial facts under the rules (it contains the initial facts, is closed
\* under the rules, and every fact in it is initial or was asserted by a rule
\* whose antecedents were all known at that moment), and run() returned True.
C1_ClosureAfterRun ==
    (ipc = "returned" /\ goal = NoGoal) =>
        /\ IsLeastClosure(rules, init_facts, facts)
        /\ Justified
        /\ returned = <<TRUE>>

\* a no-goal run that needed a second productive look at the rule list and
\* fired a rule with two antecedents
C1_Witness ==
    /\ ipc = "returned"
    /\ goal = NoGoal
    /\ passes >= 3
    /\ \E k \in DOMAIN history : Cardinality(rules[history[k]].antecedents) = 2
    /\ facts # init_facts

\* C2: if the goal belongs to the closure of the initial facts under the
\* rules (initial facts included), run(goal) returns True.
C2_ReachableGoalReturnsTrue ==
    (ipc = "returned" /\ goal # NoGoal
        /\ goal[1] \in LeastClosure(rules, init_facts)) =>
        returned = <<TRUE>>

\* a goal that is an initial fact: no rule asserts it, the run ends at the
\* fixpoint after other rules fired, and still returns True
C2_Witness ==
    /\ ipc = "returned"
    /\ goal # NoGoal
    /\ goal[1] \in init_facts
    /\ exit = "fixpoint"
    /\ applied_rules # <<>>
    /\ returned = <<TRUE>>

\* C3: when run() ends because a full pass fired no rule, the returned value
\* is (goal in facts) whenever the caller gave a goal, whatever its value
\* (the empty string included), and True only when no goal was given.
C3_FixpointResultIsMembership ==
    (ipc = "returned" /\ exit = "fixpoint") =>
        returned = <<IF goal # NoGoal THEN goal[1] \in facts ELSE TRUE>>

\* C4: run() terminates, with or without a goal, for acyclic and for cyclic
\* rule lists: every run that has started returns.
C4_RunTerminates == (ipc = "for") ~> (ipc = "returned")

\* rules[i] and rules[j] feed each other (a -> b together with b -> a)
Cyclic(i, j) ==
    /\ i # j
    /\ rules[i].consequent \in rules[j].antecedents
    /\ rules[j].consequent \in rules[i].antecedents
    /\ rules[i].consequent # rules[j].consequent

\* a run over a cyclic rule list that fired a rule of the cycle and returned
C4_Witness ==
    /\ ipc = "returned"
    /\ \E i, j \in DOMAIN rules : Cyclic(i, j) /\ i \in {applied_rules[k] : k \in DOMAIN applied_rules}

\* C11: closure is idempotent.  An engine built with the same rules and with
\* the facts that run() with no goal left as its initial facts asserts
\* nothing (facts stay the initial facts, inferred stays empty), and once
\* run() with no goal has returned on an engine, later run() calls on that
\* engine add no fact and no inferred fact.
C11_ClosureIsIdempotent ==
    /\ built_from # None => (facts = init_facts /\ inferred = {})
    /\ left_by_run # None =>
          /\ facts = left_by_run[1].facts
          /\ inferred = left_by_run[1].inferred

\* the first engine inferred something, and the engine built from the facts
\* it was left with has run and returned
C11_Witness ==
    /\ built_from # None
    /\ built_from[1] # init_facts
    /\ runs = 2
    /\ ipc = "returned"

\* the three state conditions of C13
FactsAccounted ==
    /\ init_facts \subseteq facts
    /\ facts = init_facts \cup inferred
    /\ inferred \cap init_facts = {}

\* C13: in every state reached during any sequence of run() calls no fact is
\* ever removed: each step leaves facts a superset of what it was, facts
\* always contains the initial facts and equals the union of the initial
\* facts and the inferred set, and inferred never contains an initial fact.
C13_FactsOnlyGrow ==
    [][FactsAccounted /\ FactsAccounted' /\ facts \subseteq facts']_vars

\* a second run() on an engine with initial facts that fired a rule after the
\* first run() had fired others
C13_Witness ==
    /\ runs = 2
    /\ init_facts # {}
    /\ applied_rules # <<>>
    /\ Len(history) > Len(applied_rules)
    /\ built_from = None

\* C14: when a rule firing asserts the goal the caller gave, run(goal)
\* returns True at that step: no later rule and no further pass is evaluated,
\* and the facts at return are the facts just before the firing plus the goal.
C14_GoalFiringReturnsAtOnce ==
    [][(ipc = "for" /\ goal # NoGoal /\ goal[1] \notin facts /\ goal[1] \in facts')
          => /\ ipc' = "returned"
             /\ returned' = <<TRUE>>
             /\ facts' = facts \cup {goal[1]}]_vars

\* the for loop is about to evaluate rules[idx]
Evaluating == ipc = "for" /\ idx <= Len(rules)

\* C22: forward chaining is eager within a pass.  A rule whose consequent is
\* unknown and whose antecedents all hold when it is evaluated fires at once,
\* in the same pass, also when some antecedent holds only thanks to a
\* consequent asserted by an earlier rule in this pass; a rule evaluated while
\* an antecedent is still missing does not fire and is not evaluated again
\* before the next pass.
C22_EagerWithinPass ==
    [][/\ (Evaluating /\ rules[idx].consequent \notin facts
            /\ rules[idx].antecedents \subseteq facts)
          => /\ facts' = facts \cup {rules[idx].consequent}
             /\ passes' = passes
       /\ (Evaluating /\ rules[idx].consequent \notin facts
            /\ ~(rules[idx].antecedents \subseteq facts))
          => /\ facts' = facts
             /\ idx' = idx + 1
             /\ passes' = passes
       /\ (ipc = "for" /\ passes' = passes) => idx' >= idx]_vars

\* in the first pass the second rule of the list has just fired on an
\* antecedent that the first rule asserted in this pass
C22_Witness ==
    /\ passes = 1
    /\ applied_rules = <<1, 2>>
    /\ ~(rules[2].antecedents \subseteq pass_start)
    /\ rules[1].consequent \in rules[2].antecedents

\* C23, as claimed: run() executes at most |rules| passes, the last one
\* included, and every pass followed by another one asserted a new fact.
C23_AtMostRulesPasses ==
    [][/\ passes' <= Len(rules')
       /\ (passes >= 1 /\ passes' = passes + 1) => facts # pass_start]_vars

\* C23, amended: run() executes at most |rules| + 1 passes, the last one
\* included, and every pass followed by another one asserted a new fact.
C23_AtMostRulesPlusOnePasses ==
    [][/\ passes' <= Len(rules') + 1
       /\ (passes >= 1 /\ passes' = passes + 1) => facts # pass_start]_vars

\* a run over two rules that needed three passes: each of the first two
\* fired one rule and the third fired none
C23_Witness ==
    /\ ipc = "returned"
    /\ exit = "fixpoint"
    /\ Len(rules) = 2
    /\ passes = 3
    /\ Len(applied_rules) = 2

\* positions of the rules with an empty antecedent list
EmptyRules == {i \in DOMAIN rules : rules[i].antecedents = {}}

\* rule i fired in the current run()
FiredThisRun(i) == \E k \in DOMAIN applied_rules : applied_rules[k] = i

\* in the first pass, the consequent of rule i was a fact when the loop
\* reached it: it was one at the start or an earlier rule asserted it
KnownWhenReached(i) ==
    \/ rules[i].consequent \in pass_start
    \/ \E k \in DOMAIN applied_rules :
          /\ applied_rules[k] < i
          /\ rules[applied_rules[k]].consequent = rules[i].consequent

\* the first pass of the current run() is over
FirstPassOver ==
    /\ passes = 1
    /\ ipc = "returned" \/ (ipc = "for" /\ idx = Len(rules) + 1)

\* C25, as claimed: a rule with an empty antecedent list whose consequent is
\* not already a fact fires during the first pass of run(), whatever the
\* initial facts are.
C25_EmptyRuleFiresInFirstPass ==
    FirstPassOver =>
        \A i \in EmptyRules : FiredThisRun(i) \/ KnownWhenReached(i)

\* C25, amended: the same, unless run(goal) returned during the first pass,
\* at a rule before it that asserted the goal.
C25_EmptyRuleFiresUnlessGoalExit ==
    FirstPassOver =>
        \A i \in EmptyRules :
            \/ FiredThisRun(i)
            \/ KnownWhenReached(i)
            \/ exit = "goal" /\ i > idx

\* an engine without initial facts whose first pass ran to its end and
\* fired a rule with no antecedent
C25_Witness ==
    /\ FirstPassOver
    /\ exit # "goal"
    /\ init_facts = {}
    /\ built_from = None
    /\ \E i \in EmptyRules : FiredThisRun(i)

\* the lists that hold the same rules as R in another order
Reorderings(R) ==
    {[i \in DOMAIN R |-> R[q[i]]] :
        q \in {f \in [DOMAIN R -> DOMAIN R] :
                 \A i, j \in DOMAIN R : f[i] = f[j] => i = j}}

\* C28: without a goal the final facts and the final inferred set of run()
\* do not depend on the order of the rule list: a fresh engine on any
\* permutation of the rules and the same initial facts ends with the same two
\* sets.
C28_OrderIndependent ==
    (ipc = "returned" /\ goal = NoGoal) =>
        \A P \in Reorderings(rules) :
            /\ RunNoGoal(P, init_facts) = facts
            /\ InferredNoGoal(P, init_facts) = inferred

\* a no-goal run over two different rules that needed an extra pass because
\* the rule supplying the other's antecedent comes second in the list
C28_Witness ==
    /\ ipc = "returned"
    /\ goal = NoGoal
    /\ Len(rules) = 2
    /\ rules[1] # rules[2]
    /\ rules[2].consequent \in rules[1].antecedents
    /\ applied_rules = <<2, 1>>
    /\ passes = 3

\* C29: after run(goal) returned by early exit the facts are a subset of the
\* closure of the initial facts, and whatever runs came before, a run()
\* without a goal leaves facts and inferred equal to those of one run()
\* without a goal on a fresh engine with the same rules and initial facts.
C29_ResumeAfterEarlyExit ==
    /\ exit = "goal" => facts \subseteq LeastClosure(rules, init_facts)
    /\ (ipc = "returned" /\ goal = NoGoal) =>
          /\ facts = RunNoGoal(rules, init_facts)
          /\ inferred = InferredNoGoal(rules, init_facts)

\* a no-goal run has returned after firing a rule, on an engine whose
\* earlier run had fired rules too: that run stopped short of the fixpoint,
\* which only the early exit on the goal does
C29_Witness ==
    /\ ipc = "returned"
    /\ goal = NoGoal
    /\ runs = 2
    /\ built_from = None
    /\ applied_rules # <<>>
    /\ Len(history) > Len(applied_rules)

\* C21: nothing the caller does to its own initial fact set or to the set
\* get_inferred_facts returned changes the engine's state: a step taken
\* while the engine is not inside run(), and that does not enter run(),
\* leaves self.rules, self.facts and self.inferred as they were.
C21_NoAliasing ==
    [][(AtCaller /\ ipc' = ipc) => UNCHANGED <<rules, facts, inferred>>]_vars


-----------------------------------------------------------------------------
(* Part II: tokens, rules and statements of the rule-matching engine *)

MaxTokens == 3          \* longest token stream enumerated exhaustively
MaxCustomRules == 2     \* longest custom rule list
MaxCalls == 2           \* apply_rules calls on one engine

\* Token values.  Every value is a word of \w characters, as the whitespace
\* tokenizer yields for text without punctuation.
Vocabulary == {"The", "cat", "is", "a", "mammal", "has"}

\* str.lower() on the words used here
Lower(w) == IF w = "The" THEN "the" ELSE w

\* the words \w+s matches in full: two characters or more, the last one an s
EndsWithS(w) == w \in {"is", "has"}

\* token streams of the documented scenarios that are longer than MaxTokens
ScenarioStreams == {<<"The", "cat", "is", "a", "mammal">>}

\* ParsedData.tokens, as the sequence of the tokens' values
TokenStreams ==
    UNION {[1..n -> Vocabulary] : n \in 0..MaxTokens} \cup ScenarioStreams

\* " ".join(token.value for token in ...) of the tokens i..j
RECURSIVE JoinFrom(_, _, _)
JoinFrom(tokens, i, j) ==
    IF i > j THEN ""
    ELSE IF i = j THEN tokens[i]
    ELSE tokens[i] \o " " \o JoinFrom(tokens, i + 1, j)

\* Patterns.  A pattern is a sequence of items separated by whitespace (\s+ in
\* a regex, pattern.split() in a token or sequence rule):
\*   lit    a literal word or a non-capturing alternative of words, (?:a|an)
\*   group  (\w+)      groupS  (\w+s)      rest  (.+)
\*   optgroup  an optional last item that captures a literal word, (?:\s+(a))?
\* Regex patterns are matched on whole tokens.  This is what re.finditer does
\* on the joined text as long as no literal that begins or ends a pattern is
\* a proper part of a token value, and no pattern ends in groupS.
Lit(ws) == [kind |-> "lit", words |-> ws]
Group == [kind |-> "group", words |-> {}]
GroupS == [kind |-> "groupS", words |-> {}]
Rest == [kind |-> "rest", words |-> {}]
OptGroup(ws) == [kind |-> "optgroup", words |-> ws]

\* rule.action, a dict with optional keys
Action(p, o, t) == [predicate |-> p, object |-> o, statement_type |-> t]

\* rule.action.get(key, default)
ActionGet(opt, default) == IF opt = None THEN default ELSE opt[1]

\* priority: int = 50
DefaultPriority == 50

\* models/rule.py: Rule(name, pattern, rule_type, action), priority 50, enabled.
\* Line 15 of that file reads `action: Dict[str, Any] - field(hash-false)`,
\* which raises NameError when the class body is evaluated; the field is
\* modelled as the declaration `action: Dict[str, Any] = field(hash=False)`
\* that the metadata field of the same class spells out.
MkRule(name, pattern, rule_type, action) ==
    [name |-> name, pattern |-> pattern, rule_type |-> rule_type,
     action |-> action, priority |-> DefaultPriority, enabled |-> TRUE]

\* RuleEngine._initialize_builtin_rules
BuiltinRules ==
    << MkRule("is_a_relation",
              <<Group, Lit({"is"}), Lit({"a", "an"}), Group>>, "regex",
              Action(Some("is_a"), None, Some("classification"))),
       MkRule("has_relation",
              <<Group, Lit({"has"}), Group>>, "regex",
              Action(Some("has"), None, Some("property"))),
       MkRule("action_object",
              <<Group, GroupS, Group>>, "regex",
              Action(Some("acts_on"), None, Some("action"))),
       MkRule("if_then",
              <<Lit({"if"}), Lit({"then"})>>, "sequence",
              Action(Some("implies"), None, Some("conditional"))),
       MkRule("definition",
              <<Group, Lit({"is"}), Lit({"defined"}), Lit({"as"}), Rest>>, "regex",
              Action(Some("defined_as"), None, Some("definition"))) >>

\* Rules a caller supplies as custom_rules, after the rules of the tests and
\* of the documented scenarios: regex rules with two, one and no capture
\* group, a token rule and two sequence rules.
HasRule ==
    MkRule("custom_has", <<Group, Lit({"has"}), Group>>, "regex",
           Action(Some("has"), None, None))
OneGroupRule ==
    MkRule("one_group", <<Group, Lit({"is"})>>, "regex",
           Action(None, Some("self"), None))
WordRule ==
    MkRule("word", <<Lit({"cat"})>>, "regex", Action(None, None, None))
TokRule ==
    MkRule("important_words", <<Lit({"the"}), Lit({"cat"}), Lit({"is"})>>, "token",
           Action(None, Some("self"), Some("annotation")))
SeqRule ==
    MkRule("seq_one", <<Lit({"cat"})>>, "sequence", Action(None, None, None))
SeqPairRule ==
    MkRule("seq_pair", <<Lit({"the"}), Lit({"cat"})>>, "sequence",
           Action(Some("matches"), None, None))

\* Further rules the Rule constructor accepts: a regex whose second group is
\* optional, (\w+)\s+is(?:\s+(a))?; a sequence of one word twice; a sequence
\* rule with the empty pattern; a token rule whose action gives an empty
\* predicate.
OptRule ==
    MkRule("opt_group", <<Group, Lit({"is"}), OptGroup({"a"})>>, "regex",
           Action(None, None, None))
SeqRepeatRule ==
    MkRule("seq_repeat", <<Lit({"cat"}), Lit({"cat"})>>, "sequence",
           Action(None, None, None))
EmptySeqRule ==
    MkRule("seq_empty", <<>>, "sequence", Action(None, None, None))
EmptyPredicateRule ==
    MkRule("no_predicate", <<Lit({"has"})>>, "token",
           Action(Some(""), None, None))

CustomCatalogue ==
    {HasRule, OneGroupRule, WordRule, TokRule, SeqRule, SeqPairRule,
     OptRule, SeqRepeatRule, EmptySeqRule, EmptyPredicateRule}

\* the custom_rules argument: None or a list
CustomRuleLists ==
    {None} \cup
    {Some(l) : l \in UNION {[1..n -> CustomCatalogue] : n \in 0..MaxCustomRules}}

\* confidences are kept in hundredths: 70 is 0.7, 100 is 1.0
RegexConfidence == 70
TokenConfidence == 80
SequenceConfidence == 90
MaxConfidence == 100
BoostPerSupporter == 5

\* LogicStatement.__post_init__: the checks that raise ValueError
ValidStatement(st) ==
    /\ 0 <= st.confidence /\ st.confidence <= MaxConfidence
    /\ st.subject # "" /\ st.predicate # "" /\ st.object # ""

\* LogicStatement with the metadata the engine records: the rule's name and
\* the position of the match (token index from 0), and the token rule's context
Statement(subj, pred, obj, type, conf, rule, pos, ctx) ==
    [subject |-> subj, predicate |-> pred, object |-> obj,
     statement_type |-> type, confidence |-> conf,
     rule |-> rule, position |-> pos, context |-> ctx]

-----------------------------------------------------------------------------
(* RuleEngine: matching *)

\* does one pattern item accept the token value w (re.IGNORECASE)
ItemMatches(item, w) ==
    CASE item.kind \in {"lit", "optgroup"} -> Lower(w) \in {Lower(x) : x \in item.words}
      [] item.kind = "groupS" -> EndsWithS(Lower(w))
      [] OTHER -> TRUE

\* does the pattern end with (.+), which runs to the end of the text
EndsWithRest(pattern) ==
    Len(pattern) > 0 /\ pattern[Len(pattern)].kind = "rest"

\* number of items a match must cover: all but an optional last item
RequiredLen(pattern) ==
    IF Len(pattern) > 0 /\ pattern[Len(pattern)].kind = "optgroup"
      THEN Len(pattern) - 1
      ELSE Len(pattern)

\* the regex matches with its first item on token p
MatchesAt(pattern, tokens, p) ==
    /\ RequiredLen(pattern) > 0
    /\ p + RequiredLen(pattern) - 1 <= Len(tokens)
    /\ \A j \in 1..RequiredLen(pattern) : ItemMatches(pattern[j], tokens[p + j - 1])

\* the optional last item takes part in the match that starts on token p
\* (the ? quantifier is greedy)
OptTaken(pattern, tokens, p) ==
    /\ RequiredLen(pattern) < Len(pattern)
    /\ p + Len(pattern) - 1 <= Len(tokens)
    /\ ItemMatches(pattern[Len(pattern)], tokens[p + Len(pattern) - 1])

\* last token of the match that starts on token p
MatchStop(pattern, tokens, p) ==
    IF EndsWithRest(pattern) THEN Len(tokens)
    ELSE IF OptTaken(pattern, tokens, p) THEN p + Len(pattern) - 1
    ELSE p + RequiredLen(pattern) - 1

\* positions of the capturing items of a pattern, in order
CaptureItems(pattern) ==
    SelectSeq([j \in 1..Len(pattern) |-> j], LAMBDA j : pattern[j].kind # "lit")

\* match.groups() holds None for a group that took no part in the match.
\* The engine only hands the value to LogicStatement, which rejects None and
\* "" alike (both are false in all([...])), so None is written "".
NotParticipating == ""

\* the match object: match.start() as a token index from 0, match.groups()
\* and match.group(0)
MatchAt(pattern, tokens, p) ==
    LET caps == CaptureItems(pattern)
        stop == MatchStop(pattern, tokens, p)
    IN  [start |-> p - 1,
         groups |-> [g \in 1..Len(caps) |->
                        CASE pattern[caps[g]].kind = "rest"
                               -> JoinFrom(tokens, p + caps[g] - 1, stop)
                          [] pattern[caps[g]].kind = "optgroup"
                               /\ ~OptTaken(pattern, tokens, p)
                               -> NotParticipating
                          [] OTHER -> tokens[p + caps[g] - 1]],
         text |-> JoinFrom(tokens, p, stop)]

\* re.finditer(rule.pattern, text_representation, re.IGNORECASE): the
\* non-overlapping matches from left to right, searching from token p on
RECURSIVE FindIter(_, _, _)
FindIter(pattern, tokens, p) ==
    IF p > Len(tokens) THEN <<>>
    ELSE IF MatchesAt(pattern, tokens, p)
      THEN <<MatchAt(pattern, tokens, p)>>
             \o FindIter(pattern, tokens, MatchStop(pattern, tokens, p) + 1)
      ELSE FindIter(pattern, tokens, p + 1)

\* variant: the whole match is the subject unless there are two groups
SubjectOfWholeMatch(groups, text) == IF Len(groups) > 1 THEN groups[1] ELSE text

\* subject = groups[0] if groups else match.group(0)
SubjectOf(groups, text) == IF Len(groups) > 0 THEN groups[1] ELSE text

\* obj = groups[1] if len(groups) > 1 else rule.action.get("object", "pattern")
ObjectOf(groups, action) ==
    IF Len(groups) > 1 THEN groups[2] ELSE ActionGet(action.object, "pattern")

\* _create_statement_from_match: the statement of one match, or nothing when
\* building it raises (the except branch returns None)
CreateStatementFromMatch(rule, m) ==
    LET st == Statement(SubjectOf(m.groups, m.text),
                        ActionGet(rule.action.predicate, "matches"),
                        ObjectOf(m.groups, rule.action),
                        ActionGet(rule.action.statement_type, "extraction"),
                        RegexConfidence, rule.name, m.start, <<>>)
    IN  IF ValidStatement(st) THEN <<st>> ELSE <<>>

\* the regex branch of _apply_single_rule
RECURSIVE StatementsOfMatches(_, _, _)
StatementsOfMatches(rule, ms, i) ==
    IF i > Len(ms) THEN <<>>
    ELSE CreateStatementFromMatch(rule, ms[i]) \o StatementsOfMatches(rule, ms, i + 1)

ApplyRegexRule(rule, tokens) ==
    StatementsOfMatches(rule, FindIter(rule.pattern, tokens, 1), 1)

\* rule.pattern.split() of a token or sequence rule
PatternWords(rule) ==
    [i \in 1..Len(rule.pattern) |-> CHOOSE w \in rule.pattern[i].words : TRUE]

\* variant: the slice ends at index + window, one token short on the right
GetTokenContextShort(tokens, index, window) ==
    LET start == IF index - window > 0 THEN index - window ELSE 0
        end == IF index + window < Len(tokens)
                 THEN index + window ELSE Len(tokens)
    IN  SubSeq(tokens, start + 1, end)

\* _get_token_context(tokens, index, window): tokens[max(0, index - window) :
\* min(len(tokens), index + window + 1)], index counted from 0
GetTokenContext(tokens, index, window) ==
    LET start == IF index - window > 0 THEN index - window ELSE 0
        end == IF index + window + 1 < Len(tokens)
                 THEN index + window + 1 ELSE Len(tokens)
    IN  SubSeq(tokens, start + 1, end)

\* _apply_token_rule: token.value.lower() in token_patterns, for token i
TokenHit(rule, tokens, i) ==
    LET words == PatternWords(rule)
    IN  Lower(tokens[i]) \in {Lower(words[k]) : k \in DOMAIN words}

\* _apply_token_rule: the LogicStatement built for token i (from 1 here)
TokenStatementAt(rule, tokens, i) ==
    Statement(tokens[i],
              ActionGet(rule.action.predicate, "matches"),
              ActionGet(rule.action.object, "pattern"),
              ActionGet(rule.action.statement_type, "assertion"),
              TokenConfidence, rule.name, i - 1,
              GetTokenContext(tokens, i - 1, 2))

\* _apply_token_rule: one statement per token whose lowercase value is one of
\* the lowercased pattern words
RECURSIVE TokenStatements(_, _, _)
TokenStatements(rule, tokens, i) ==
    IF i > Len(tokens) THEN <<>>
    ELSE (IF TokenHit(rule, tokens, i)
            THEN <<TokenStatementAt(rule, tokens, i)>> ELSE <<>>)
           \o TokenStatements(rule, tokens, i + 1)

ApplyTokenRule(rule, tokens) == TokenStatements(rule, tokens, 1)

\* _apply_token_rule builds its statements outside any try block: the
\* ValueError of LogicStatement.__post_init__ leaves apply_rules
TokenRuleError(rule, tokens) ==
    IF \E i \in 1..Len(tokens) :
          TokenHit(rule, tokens, i) /\ ~ValidStatement(TokenStatementAt(rule, tokens, i))
      THEN "ValueError"
      ELSE "none"

\* _apply_sequence_rule: tokens[i : i + len(sequence)] == sequence, for the
\* start index i (from 1 here); an empty sequence equals every empty slice
SequenceHit(rule, tokens, i) ==
    LET seq == PatternWords(rule)
    IN  \A j \in 1..Len(seq) : Lower(tokens[i + j - 1]) = Lower(seq[j])

\* _apply_sequence_rule: the LogicStatement built for the start index i
SequenceStatementAt(rule, tokens, i) ==
    LET k == Len(PatternWords(rule))
    IN  Statement(tokens[i],
                  ActionGet(rule.action.predicate, "relates_to"),
                  IF k > 1 THEN tokens[i + k - 1] ELSE "self",
                  ActionGet(rule.action.statement_type, "relation"),
                  SequenceConfidence, rule.name, i - 1, <<>>)

\* variant: the search resumes after the end of a run that matched
RECURSIVE SequenceStatementsNoOverlap(_, _, _)
SequenceStatementsNoOverlap(rule, tokens, i) ==
    LET k == Len(PatternWords(rule))
    IN  IF i > Len(tokens) - k + 1 THEN <<>>
        ELSE IF SequenceHit(rule, tokens, i)
          THEN <<SequenceStatementAt(rule, tokens, i)>>
                 \o SequenceStatementsNoOverlap(rule, tokens, i + k)
          ELSE SequenceStatementsNoOverlap(rule, tokens, i + 1)

\* _apply_sequence_rule: one statement per start index i (from 1 here) with
\* tokens[i : i + len(sequence)], lowercased, equal to the lowercased sequence
RECURSIVE SequenceStatements(_, _, _)
SequenceStatements(rule, tokens, i) ==
    LET k == Len(PatternWords(rule))
    IN  IF i > Len(tokens) - k + 1 THEN <<>>
        ELSE (IF SequenceHit(rule, tokens, i)
                THEN <<SequenceStatementAt(rule, tokens, i)>> ELSE <<>>)
               \o SequenceStatements(rule, tokens, i + 1)

\* variant of _apply_sequence_rule with the search that skips matched runs
ApplySequenceRuleNoOverlap(rule, tokens) == SequenceStatementsNoOverlap(rule, tokens, 1)

ApplySequenceRule(rule, tokens) == SequenceStatements(rule, tokens, 1)

\* _apply_sequence_rule indexes parsed_data.tokens[i] outside any try block.
\* With the empty sequence, range(len(tokens) - 0 + 1) ends at i = len(tokens),
\* every slice tokens[i:i] equals the sequence, and tokens[len(tokens)] raises
\* IndexError, unless an earlier statement was invalid and raised ValueError.
SequenceRuleError(rule, tokens) ==
    LET k == Len(PatternWords(rule))
    IN  IF \E i \in 1..(Len(tokens) - k + 1) :
              /\ i <= Len(tokens)
              /\ SequenceHit(rule, tokens, i)
              /\ ~ValidStatement(SequenceStatementAt(rule, tokens, i))
          THEN "ValueError"
        ELSE IF k = 0 THEN "IndexError"
        ELSE "none"

\* the exception that applying one rule raises, "none" when it returns; the
\* regex branch catches every exception of a match
RuleError(rule, tokens) ==
    CASE rule.rule_type = "token" -> TokenRuleError(rule, tokens)
      [] rule.rule_type = "sequence" -> SequenceRuleError(rule, tokens)
      [] OTHER -> "none"

\* variant: a rule below the default priority is not applied
ApplySingleRuleAbovePriority(rule, tokens) ==
    CASE rule.priority < DefaultPriority -> <<>>
      [] rule.rule_type = "regex" -> ApplyRegexRule(rule, tokens)
      [] rule.rule_type = "token" -> ApplyTokenRule(rule, tokens)
      [] rule.rule_type = "sequence" -> ApplySequenceRule(rule, tokens)
      [] OTHER -> <<>>

\* _apply_single_rule: dispatch on rule.rule_type; "custom" yields nothing
ApplySingleRule(rule, tokens) ==
    CASE rule.rule_type = "regex" -> ApplyRegexRule(rule, tokens)
      [] rule.rule_type = "token" -> ApplyTokenRule(rule, tokens)
      [] rule.rule_type = "sequence" -> ApplySequenceRule(rule, tokens)
      [] OTHER -> <<>>

\* apply_rules, the loop: the exception of the first rule that raises
RECURSIVE FirstError(_, _, _)
FirstError(rs, tokens, i) ==
    IF i > Len(rs) THEN "none"
    ELSE IF RuleError(rs[i], tokens) # "none" THEN RuleError(rs[i], tokens)
    ELSE FirstError(rs, tokens, i + 1)

\* apply_rules, the loop: statements.extend(rule_statements) for each rule
RECURSIVE ApplyAllRules(_, _, _)
ApplyAllRules(rs, tokens, i) ==
    IF i > Len(rs) THEN <<>>
    ELSE ApplySingleRule(rs[i], tokens) \o ApplyAllRules(rs, tokens, i + 1)

-----------------------------------------------------------------------------
(* RuleEngine: post-processing *)

\* key = (stmt.subject, stmt.predicate, stmt.object)
Key(st) == <<st.subject, st.predicate, st.object>>

\* variant: a later statement of equal confidence replaces the kept one
ReplacesOnTie(new, kept) == new.confidence >= kept.confidence

\* stmt.confidence > unique_statements[key].confidence
Replaces(new, kept) == new.confidence > kept.confidence

\* variant: a statement with a new key goes to the front of the list
MergeStepPrepends(acc, st) ==
    IF \E j \in DOMAIN acc : Key(acc[j]) = Key(st)
      THEN LET j == CHOOSE j \in DOMAIN acc : Key(acc[j]) = Key(st)
           IN  IF Replaces(st, acc[j]) THEN [acc EXCEPT ![j] = st] ELSE acc
      ELSE <<st>> \o acc

\* one iteration of the loop of _merge_duplicate_statements.  The dict keeps
\* its keys in the order of their first insertion; acc is its values() list.
MergeStep(acc, st) ==
    IF \E j \in DOMAIN acc : Key(acc[j]) = Key(st)
      THEN LET j == CHOOSE j \in DOMAIN acc : Key(acc[j]) = Key(st)
           IN  IF Replaces(st, acc[j]) THEN [acc EXCEPT ![j] = st] ELSE acc
      ELSE Append(acc, st)

RECURSIVE MergeFrom(_, _, _)
MergeFrom(statements, i, acc) ==
    IF i > Len(statements) THEN acc
    ELSE MergeFrom(statements, i + 1, MergeStep(acc, statements[i]))

\* _merge_duplicate_statements
MergeDuplicateStatements(statements) == MergeFrom(statements, 1, <<>>)

\* variant: the statement counts itself among its supporters
SupportingCountWithSelf(statements, st) ==
    Cardinality({j \in DOMAIN statements :
                    \/ statements[j].subject = st.subject
                    \/ statements[j].object = st.object})

\* supporting_count: the other statements (other != stmt, the dataclass
\* comparison by value) with the same subject or the same object
SupportingCount(statements, st) ==
    Cardinality({j \in DOMAIN statements :
                    /\ statements[j] # st
                    /\ \/ statements[j].subject = st.subject
                       \/ statements[j].object = st.object})

\* variant: the boost is added without the clamp
BoostedUnclamped(conf, count) == conf + BoostPerSupporter * count

\* min(1.0, stmt.confidence + (0.05 * supporting_count))
Boosted(conf, count) ==
    IF conf + BoostPerSupporter * count < MaxConfidence
      THEN conf + BoostPerSupporter * count
      ELSE MaxConfidence

\* _calculate_confidence_scores: one pass over the list, each statement
\* updated in place before the next one is looked at
RECURSIVE ScoreFrom(_, _)
ScoreFrom(statements, i) ==
    IF i > Len(statements) THEN statements
    ELSE LET count == SupportingCount(statements, statements[i])
         IN  ScoreFrom(IF count > 0
                         THEN [statements EXCEPT
                                 ![i].confidence = Boosted(@, count)]
                         ELSE statements,
                       i + 1)

\* variant: the pass goes over the list twice
CalculateConfidenceScoresTwice(statements) ==
    ScoreFrom(ScoreFrom(statements, 1), 1)

\* _calculate_confidence_scores(statements)
CalculateConfidenceScores(statements) == ScoreFrom(statements, 1)

-----------------------------------------------------------------------------
(* RuleEngine: the engine and its callers *)

\* the variables of the inference engine while it is not exercised
InfIdle ==
    /\ rules = <<>>
    /\ init_facts = {}
    /\ facts = {}
    /\ inferred = {}
    /\ applied_rules = <<>>
    /\ goal = NoGoal
    /\ applied = FALSE
    /\ idx = 0
    /\ ipc = "ready"
    /\ returned = <<>>
    /\ exit = "none"
    /\ passes = 0
    /\ runs = 0
    /\ history = <<>>
    /\ left_by_run = None
    /\ built_from = None
    /\ pass_start = {}
    /\ caller_facts = {}
    /\ held = FALSE

\* a second RuleEngine() on which nothing has been called
OtherUnused ==
    /\ other_builtin_rules = BuiltinRules
    /\ other_outcome = "none"
    /\ other_result = <<>>

\* RuleEngine(enable_caching=...), and the objects the caller will pass
ReInit ==
    /\ enable_caching \in BOOLEAN
    /\ builtin_rules = BuiltinRules
    /\ parsed \in TokenStreams
    /\ custom \in CustomRuleLists
    /\ outcome = "none"
    /\ result = <<>>
    /\ raw = <<>>
    /\ merged = <<>>
    /\ calls = 0
    /\ OtherUnused

\* variant: only None selects the built-in rules
RulesUsedNoneOnly(c, builtin) == IF c # None THEN c[1] ELSE builtin

\* rules = custom_rules if custom_rules else self.builtin_rules
RulesUsed(c, builtin) == IF c # None /\ Len(c[1]) > 0 THEN c[1] ELSE builtin

\* With enable_caching, __init__ wraps _apply_single_rule in lru_cache, which
\* hashes its arguments before anything else.  ParsedData is a dataclass with
\* eq and without frozen, so it has no __hash__: the first call of the loop
\* raises TypeError.
CacheLookupRaises(caching, rs) == caching /\ Len(rs) > 0

\* the exception that leaves apply_rules, "none" when it returns
CallError(caching, rs, tokens) ==
    IF CacheLookupRaises(caching, rs) THEN "TypeError" ELSE FirstError(rs, tokens, 1)

\* variant: the custom rules are registered with the engine before use
ApplyRulesRegistersCustom ==
    /\ calls < MaxCalls
    /\ calls' = calls + 1
    /\ LET rs == RulesUsed(custom, builtin_rules)
       IN  IF CallError(enable_caching, rs, parsed) # "none"
             THEN /\ outcome' = CallError(enable_caching, rs, parsed)
                  /\ raw' = <<>>
                  /\ merged' = <<>>
                  /\ result' = <<>>
             ELSE /\ outcome' = "ok"
                  /\ raw' = ApplyAllRules(rs, parsed, 1)
                  /\ merged' = MergeDuplicateStatements(raw')
                  /\ result' = CalculateConfidenceScores(merged')
    /\ builtin_rules' = IF custom # None THEN builtin_rules \o custom[1]
                                          ELSE builtin_rules
    /\ UNCHANGED <<enable_caching, parsed, custom, otherVars>>
    /\ UNCHANGED <<infVars, ppVars, ctorVars>>

\* apply_rules(parsed_data, custom_rules), the whole call
ApplyRules ==
    /\ calls < MaxCalls
    /\ calls' = calls + 1
    /\ LET rs == RulesUsed(custom, builtin_rules)
       IN  IF CallError(enable_caching, rs, parsed) # "none"
             THEN /\ outcome' = CallError(enable_caching, rs, parsed)
                  /\ raw' = <<>>
                  /\ merged' = <<>>
                  /\ result' = <<>>
             ELSE /\ outcome' = "ok"
                  /\ raw' = ApplyAllRules(rs, parsed, 1)
                  /\ merged' = MergeDuplicateStatements(raw')
                  /\ result' = CalculateConfidenceScores(merged')
    /\ UNCHANGED <<enable_caching, builtin_rules, parsed, custom, otherVars>>
    /\ UNCHANGED <<infVars, ppVars, ctorVars>>

ReNext == ApplyRules

InitRE == ReInit /\ InfIdle /\ PpIdle /\ CtorIdle
SpecRE == InitRE /\ [][ReNext]_vars

-----------------------------------------------------------------------------
(* The post-processing passes on statement lists of any origin *)

MaxStatements == 3      \* longest statement list handed to the passes

\* what the three rule types produce: the confidence is fixed by the type
Shapes ==
    {[subject |-> sb, object |-> ob, confidence |-> cf] :
        sb \in {"cat", "The"}, ob \in {"self", "pattern"},
        cf \in {RegexConfidence, TokenConfidence, SequenceConfidence}}

\* a statement list as the rules produce it; the position tells apart
\* statements that are equal otherwise
StatementLists ==
    {[i \in 1..Len(l) |->
         Statement(l[i].subject, "matches", l[i].object, "extraction",
                   l[i].confidence, "rule", i - 1, <<>>)] :
        l \in UNION {[1..n -> Shapes] : n \in 0..MaxStatements}}

PpInit ==
    /\ pp_in \in StatementLists
    /\ pp_out = <<>>
    /\ pp_pc = "input"

\* statements = self._merge_duplicate_statements(statements)
MergeCall ==
    /\ pp_pc = "input"
    /\ pp_out' = MergeDuplicateStatements(pp_in)
    /\ pp_pc' = "merged"
    /\ UNCHANGED pp_in
    /\ UNCHANGED <<infVars, reVars, ctorVars>>

\* statements = self._calculate_confidence_scores(statements)
ScoreCall ==
    /\ pp_pc = "merged"
    /\ pp_out' = CalculateConfidenceScores(pp_out)
    /\ pp_pc' = "scored"
    /\ UNCHANGED pp_in
    /\ UNCHANGED <<infVars, reVars, ctorVars>>

\* self._merge_duplicate_statements applied to the list it has just returned
MergeAgainCall ==
    /\ pp_pc = "merged"
    /\ pp_out' = MergeDuplicateStatements(pp_out)
    /\ pp_pc' = "remerged"
    /\ UNCHANGED pp_in
    /\ UNCHANGED <<infVars, reVars, ctorVars>>

PpNext == MergeCall \/ ScoreCall \/ MergeAgainCall

InitPost == PpInit /\ InfIdle /\ ReIdle /\ CtorIdle
SpecPost == InitPost /\ [][PpNext]_vars

-----------------------------------------------------------------------------
(* The constructors of Rule and LogicStatement *)

\* valid_types of Rule.__post_init__
ValidTypes == {"regex", "token", "sequence", "custom"}

\* 0 <= self.priority <= 100
MinPriority == 0
MaxPriority == 100

\* re.compile(pattern) returns; of the patterns tried here only "(" is
\* rejected (missing ), unterminated subpattern)
Compiles(pattern) == pattern # "("

\* the arguments a caller may give to Rule(...); name and action are not
\* looked at by the constructor
RuleArgs ==
    [rule_type : ValidTypes \cup {"fuzzy"},
     pattern : {"cat", "(", ""},
     priority : {-1, 0, 50, 100, 101}]

\* the arguments a caller may give to LogicStatement(...), the confidence in
\* hundredths
StatementArgs ==
    [subject : {"", "cat"}, predicate : {"", "is_a"}, object : {"", "mammal"},
     confidence : {-1, 0, 50, 100, 101}]

\* The body of class Rule is evaluated when models/rule.py is imported.  Its
\* line 15, `action: Dict[str, Any] - field(hash-false)`, looks up these names
AnnotationNames == {"Dict", "str", "Any", "field", "hash", "false"}

\* the names bound at that point: the imports of the module and the builtins
NamesInScope ==
    {"Dict", "Any", "Optional", "List", "dataclass", "field", "asdict", "re",
     "str", "int", "bool", "hash"}

\* evaluating the class body raises NameError on the first unbound name
ClassBodyError ==
    IF AnnotationNames \subseteq NamesInScope THEN "none" ELSE "NameError"

\* Rule.__post_init__: the three checks, in the order of the code
RulePostInit(a) ==
    IF a.rule_type \notin ValidTypes THEN "ValueError"
    ELSE IF a.rule_type = "regex" /\ ~Compiles(a.pattern) THEN "ValueError"
    ELSE IF ~(MinPriority <= a.priority /\ a.priority <= MaxPriority) THEN "ValueError"
    ELSE "object"

\* from synoptic_core.models.rule import Rule; Rule(...)
NewRule(a) ==
    /\ ctor_kind = "none"
    /\ ctor_kind' = "Rule"
    /\ ctor_args' = Some(a)
    /\ ctor_out' = IF ClassBodyError # "none" THEN ClassBodyError ELSE RulePostInit(a)
    /\ UNCHANGED <<infVars, reVars, ppVars>>

\* LogicStatement(...): __post_init__ raises ValueError or the object exists
NewStatement(a) ==
    /\ ctor_kind = "none"
    /\ ctor_kind' = "LogicStatement"
    /\ ctor_args' = Some(a)
    /\ ctor_out' = IF ValidStatement(a) THEN "object" ELSE "ValueError"
    /\ UNCHANGED <<infVars, reVars, ppVars>>

CtorNext ==
    \/ \E a \in RuleArgs : NewRule(a)
    \/ \E a \in StatementArgs : NewStatement(a)

InitCtor == CtorIdle /\ InfIdle /\ ReIdle /\ PpIdle
SpecCtor == InitCtor /\ [][CtorNext]_vars

-----------------------------------------------------------------------------
(* apply_rules on rules whose priority and enabled fields vary *)

\* Rule(..., enabled=e)
WithEnabled(r, e) == [r EXCEPT !.enabled = e]

\* Rule(..., priority=p)
WithPriority(r, p) == [r EXCEPT !.priority = p]

\* priorities a caller gives in place of the default one
PriorityValues == {MinPriority, MaxPriority}

\* a regex, a token and a sequence rule, each enabled or disabled
FlaggedCatalogue ==
    {WithEnabled(r, e) : r \in {HasRule, TokRule, SeqRule}, e \in BOOLEAN}

\* the custom_rules argument: a list of such rules
FlaggedRuleLists ==
    {Some(l) : l \in UNION {[1..n -> FlaggedCatalogue] : n \in 0..MaxCustomRules}}

\* RuleEngine(enable_caching=False), and the objects the caller will pass
FlagInit ==
    /\ enable_caching = FALSE
    /\ builtin_rules = BuiltinRules
    /\ parsed \in TokenStreams
    /\ custom \in FlaggedRuleLists
    /\ outcome = "none"
    /\ result = <<>>
    /\ raw = <<>>
    /\ merged = <<>>
    /\ calls = 0
    /\ OtherUnused

\* after a call the caller builds the list for the next one: the same rules
\* in the same order with other priority values
Reprioritise ==
    /\ calls > 0
    /\ \A i \in DOMAIN custom[1] : custom[1][i].priority = DefaultPriority
    /\ \E ps \in [DOMAIN custom[1] -> PriorityValues] :
          custom' = Some([i \in DOMAIN custom[1] |->
                            WithPriority(custom[1][i], ps[i])])
    /\ custom' # custom
    /\ UNCHANGED <<enable_caching, builtin_rules, parsed, outcome, result,
                   raw, merged, calls, otherVars>>
    /\ UNCHANGED <<infVars, ppVars, ctorVars>>

FlagNext == ApplyRules \/ Reprioritise

InitFlags == FlagInit /\ InfIdle /\ PpIdle /\ CtorIdle
SpecFlags == InitFlags /\ [][FlagNext]_vars

-----------------------------------------------------------------------------
(* Two RuleEngine instances *)

MaxAddedRules == 1      \* add_rule calls on one engine

\* the rules a caller registers with add_rule
AddableRules == {TokRule, SeqRule, EmptySeqRule}

\* the custom_rules argument of the calls on the two engines
SharedRuleLists == {None, Some(<<>>), Some(<<HasRule>>)}

\* two engines built with the same arguments, and the objects the caller
\* will pass to both
EnginesInit ==
    /\ enable_caching \in BOOLEAN
    /\ builtin_rules = BuiltinRules
    /\ parsed \in TokenStreams
    /\ custom \in SharedRuleLists
    /\ outcome = "none"
    /\ result = <<>>
    /\ raw = <<>>
    /\ merged = <<>>
    /\ calls = 0
    /\ OtherUnused

\* variant: builtin_rules is one list shared by all the instances
AddRuleShared(rule) ==
    /\ Len(builtin_rules) < Len(BuiltinRules) + MaxAddedRules
    /\ builtin_rules' = Append(builtin_rules, rule)
    /\ other_builtin_rules' = Append(other_builtin_rules, rule)
    /\ UNCHANGED <<enable_caching, parsed, custom, outcome, result, raw,
                   merged, calls, other_outcome, other_result>>
    /\ UNCHANGED <<infVars, ppVars, ctorVars>>

\* add_rule(rule): self.builtin_rules.append(rule)
AddRule(rule) ==
    /\ Len(builtin_rules) < Len(BuiltinRules) + MaxAddedRules
    /\ builtin_rules' = Append(builtin_rules, rule)
    /\ UNCHANGED <<enable_caching, parsed, custom, outcome, result, raw,
                   merged, calls, otherVars>>
    /\ UNCHANGED <<infVars, ppVars, ctorVars>>

\* add_rule and apply_rules have both been called on the first engine
FirstEngineUsed ==
    /\ calls > 0
    /\ Len(builtin_rules) > Len(BuiltinRules)

\* apply_rules(parsed_data, custom_rules) on the second engine, the whole
\* call, once the first engine has been used
OtherApplyRules ==
    /\ FirstEngineUsed
    /\ LET rs == RulesUsed(custom, other_builtin_rules)
       IN  IF CallError(enable_caching, rs, parsed) # "none"
             THEN /\ other_outcome' = CallError(enable_caching, rs, parsed)
                  /\ other_result' = <<>>
             ELSE /\ other_outcome' = "ok"
                  /\ other_result' =
                       CalculateConfidenceScores(
                           MergeDuplicateStatements(ApplyAllRules(rs, parsed, 1)))
    /\ UNCHANGED <<enable_caching, builtin_rules, parsed, custom, outcome,
                   result, raw, merged, calls, other_builtin_rules>>
    /\ UNCHANGED <<infVars, ppVars, ctorVars>>

EnginesNext ==
    \/ ApplyRules
    \/ \E rule \in AddableRules : AddRule(rule)
    \/ OtherApplyRules

InitEngines == EnginesInit /\ InfIdle /\ PpIdle /\ CtorIdle
SpecEngines == InitEngines /\ [][EnginesNext]_vars


-----------------------------------------------------------------------------
(* Properties of the rule-matching engine *)

\* the keys of a statement list
KeysOf(statements) == {Key(statements[i]) : i \in DOMAIN statements}

\* C5: deduplication returns exactly one statement per distinct
\* (subject, predicate, object) key of its input; the survivor of a key is a
\* statement of the input with the highest confidence of that key, and among
\* several of that confidence the first one in input order.
C5_DedupKeepsFirstHighest ==
    (pp_pc = "merged") =>
        /\ KeysOf(pp_out) = KeysOf(pp_in)
        /\ Len(pp_out) = Cardinality(KeysOf(pp_in))
        /\ \A o \in DOMAIN pp_out :
             \E i \in DOMAIN pp_in :
                /\ pp_in[i] = pp_out[o]
                /\ \A j \in DOMAIN pp_in :
                      Key(pp_in[j]) = Key(pp_in[i]) =>
                         /\ pp_in[j].confidence <= pp_in[i].confidence
                         /\ (j < i => pp_in[j].confidence < pp_in[i].confidence)

\* a key with three statements, the highest confidence shared by the last two
C5_Witness ==
    /\ pp_pc = "merged"
    /\ Len(pp_in) = 3
    /\ Len(pp_out) = 1
    /\ pp_in[1].confidence < pp_in[2].confidence
    /\ pp_in[2].confidence = pp_in[3].confidence
    /\ pp_out[1] = pp_in[2]

\* C12: applying the deduplication pass to the output of the deduplication
\* pass returns the same statements in the same order with the same
\* confidences.
C12_DedupIsIdempotent ==
    [][(pp_pc = "merged" /\ pp_pc' = "remerged") => pp_out' = pp_out]_vars

\* the pass was applied twice to a list from which the first application
\* dropped a duplicate and kept two keys, one of them with a later statement
\* of higher confidence as its survivor
C12_Witness ==
    /\ pp_pc = "remerged"
    /\ Len(pp_out) = 2
    /\ Len(pp_in) = 3
    /\ \E i \in DOMAIN pp_out : pp_out[i].position > 0 /\ Key(pp_out[i]) = Key(pp_in[1])

\* C6: every statement returned by apply_rules has 0 <= confidence <= 1,
\* whatever the token stream and the rule list, and however many statements
\* share its subject or object.
C6_ConfidenceWithinBounds ==
    (outcome = "ok") =>
        \A i \in DOMAIN result :
            0 <= result[i].confidence /\ result[i].confidence <= MaxConfidence

\* a returned statement whose boost would have passed 1.0 without the clamp
C6_Witness ==
    /\ outcome = "ok"
    /\ \E i \in DOMAIN result :
          /\ result[i].confidence = MaxConfidence
          /\ merged[i].confidence
               + BoostPerSupporter * SupportingCount(merged, merged[i]) > MaxConfidence

\* the (subject, predicate, object, confidence) values of a statement list
Quadruples(statements) ==
    {<<statements[i].subject, statements[i].predicate, statements[i].object,
       statements[i].confidence>> : i \in DOMAIN statements}

\* C7: given the same token stream and rule list, every call to apply_rules
\* returns the same set of triples with the same confidences, on repeated
\* calls of one engine, with caching enabled as well as disabled.
C7_EveryCallReturnsTheSameSet ==
    [][calls' > calls =>
         /\ outcome' = "ok"
         /\ (calls > 0 => outcome = "ok" /\ Quadruples(result') = Quadruples(result))]_vars

\* the regex rules of the list the last call used
RegexRulesUsed ==
    LET rs == RulesUsed(custom, builtin_rules)
    IN  {rs[i] : i \in {j \in DOMAIN rs : rs[j].rule_type = "regex"}}

\* the statements built for the match m of rule r, before post-processing
BuiltFrom(r, m) ==
    {raw[i] : i \in {j \in DOMAIN raw : raw[j].rule = r.name /\ raw[j].position = m.start}}

\* the matches of the regex rule r in the caller's token stream
MatchesOf(r) ==
    LET ms == FindIter(r.pattern, parsed, 1) IN {ms[i] : i \in DOMAIN ms}

\* C8, as claimed: with two or more groups subject = group 1 and object =
\* group 2; with exactly one group subject = the whole matched text and object
\* = the configured object (default "pattern"); with no group subject = the
\* whole matched text; the confidence before post-processing is 0.7.
C8_SubjectIsWholeMatchForOneGroup ==
    (outcome = "ok") =>
        \A r \in RegexRulesUsed : \A m \in MatchesOf(r) : \A st \in BuiltFrom(r, m) :
            /\ st.confidence = RegexConfidence
            /\ Len(m.groups) >= 2 => st.subject = m.groups[1] /\ st.object = m.groups[2]
            /\ Len(m.groups) = 1 =>
                  /\ st.subject = m.text
                  /\ st.object = ActionGet(r.action.object, "pattern")
            /\ Len(m.groups) = 0 => st.subject = m.text

\* C8, amended: with one group or more subject = group 1; with two or more
\* object = group 2, otherwise object = the configured object (default
\* "pattern"); with no group subject = the whole matched text; the
\* confidence before post-processing is 0.7.
C8_SubjectIsFirstGroup ==
    (outcome = "ok") =>
        \A r \in RegexRulesUsed : \A m \in MatchesOf(r) : \A st \in BuiltFrom(r, m) :
            /\ st.confidence = RegexConfidence
            /\ Len(m.groups) >= 1 => st.subject = m.groups[1]
            /\ Len(m.groups) >= 2 => st.object = m.groups[2]
            /\ Len(m.groups) <= 1 => st.object = ActionGet(r.action.object, "pattern")
            /\ Len(m.groups) = 0 => st.subject = m.text

\* a call that built a statement from a one-group match longer than its
\* group, under a configured object, and a statement from a match of a rule
\* without groups
C8_Witness ==
    /\ outcome = "ok"
    /\ \E r \in RegexRulesUsed : \E m \in MatchesOf(r) :
          /\ Len(m.groups) = 1 /\ m.text # m.groups[1] /\ r.action.object # None
          /\ BuiltFrom(r, m) # {}
    /\ \E r \in RegexRulesUsed : \E m \in MatchesOf(r) :
          Len(m.groups) = 0 /\ BuiltFrom(r, m) # {}

ScenarioA == <<"The", "cat", "is", "a", "mammal">>

\* the call used the built-in rules
UsedBuiltin == RulesUsed(custom, builtin_rules) = builtin_rules

\* the returned statements (cat, is_a, mammal)
CatIsAMammal ==
    {result[i] : i \in {j \in DOMAIN result :
                          Key(result[j]) = <<"cat", "is_a", "mammal">>}}

NamesOf(rs) == {rs[i].name : i \in DOMAIN rs}

\* the names of the rules the returned statements come from
Contributors == {result[i].rule : i \in DOMAIN result}

\* the caller's list is the single two-group rule and it matches once
OneHasMatch ==
    /\ custom = Some(<<HasRule>>)
    /\ Len(FindIter(HasRule.pattern, parsed, 1)) = 1

IsAMatches == FindIter(builtin_rules[1].pattern, parsed, 1) # <<>>

RulesOfCall == RulesUsed(custom, builtin_rules)

\* how many times the rule r stands in that list
Mult(r) == Cardinality({i \in DOMAIN RulesOfCall : RulesOfCall[i] = r})

\* the statements, before post-processing, that carry the name of r
AllFrom(r) == {j \in DOMAIN raw : raw[j].rule = r.name}

\* those of them recorded at the position i, counted from 0
FromRule(r, i) == {j \in AllFrom(r) : raw[j].position = i}

\* the stream indices, from 0, whose token is one of the words of token rule r
TokenHitIndices(r) ==
    {i \in 0..(Len(parsed) - 1) :
        Lower(parsed[i + 1]) \in {Lower(w) : w \in UNION {r.pattern[k].words : k \in DOMAIN r.pattern}}}

\* tokens i..i+k-1 (from 0), lowercased, are the k words of sequence rule r
RunAt(r, i) ==
    /\ i + Len(r.pattern) <= Len(parsed)
    /\ \A j \in 1..Len(r.pattern) :
          \E w \in r.pattern[j].words : Lower(parsed[i + j]) = Lower(w)

\* a statement can be built from the match m of regex rule r: the subject
\* and the object it would get and the predicate are present and non-empty
Buildable(r, m) ==
    /\ (IF Len(m.groups) > 0 THEN m.groups[1] ELSE m.text) # ""
    /\ (IF Len(m.groups) > 1 THEN m.groups[2]
                              ELSE ActionGet(r.action.object, "pattern")) # ""
    /\ ActionGet(r.action.predicate, "matches") # ""

\* the number of statements rule r is due for one application
Due(r) ==
    CASE r.rule_type = "regex" -> Cardinality({m \in MatchesOf(r) : Buildable(r, m)})
      [] r.rule_type = "token" -> Cardinality(TokenHitIndices(r))
      [] r.rule_type = "sequence" ->
            Cardinality({i \in 0..(Len(parsed) - 1) : RunAt(r, i)})
      [] OTHER -> 0

\* every rule of the list has all its statements among those collected, and
\* a match that cannot be built has none
AllDueStatementsCollected ==
    /\ \A i \in DOMAIN RulesOfCall :
          Cardinality(AllFrom(RulesOfCall[i])) = Mult(RulesOfCall[i]) * Due(RulesOfCall[i])
    /\ \A r \in RegexRulesUsed : \A m \in MatchesOf(r) :
          ~Buildable(r, m) => BuiltFrom(r, m) = {}

\* the call reached a regex rule and a match of it whose statement cannot be
\* built: no cache lookup and no earlier rule of the list raised
FailedMatchMet ==
    /\ calls > 0
    /\ ~CacheLookupRaises(enable_caching, RulesOfCall)
    /\ \E i \in DOMAIN RulesOfCall :
          /\ RulesOfCall[i].rule_type = "regex"
          /\ \E m \in MatchesOf(RulesOfCall[i]) : ~Buildable(RulesOfCall[i], m)
          /\ \A j \in 1..(i - 1) : RuleError(RulesOfCall[j], parsed) = "none"

\* C15: if building the statement of one regex match fails (its subject or
\* object is empty or took no part in the match), that match contributes no
\* statement, and apply_rules still completes and returns the statements of
\* every other match and of every other rule.
C15_FailedMatchIsSkipped ==
    FailedMatchMet => (outcome = "ok" /\ AllDueStatementsCollected)

\* the context C16 gives for index i: tokens max(0, i-2) .. min(n-1, i+2)
ContextAround(i) ==
    LET lo == IF i - 2 > 0 THEN i - 2 ELSE 0
        hi == IF i + 2 < Len(parsed) - 1 THEN i + 2 ELSE Len(parsed) - 1
    IN  [j \in 1..(hi - lo + 1) |-> parsed[lo + j]]

\* the token rules of the list the last call used
TokenRulesUsed ==
    {RulesOfCall[i] : i \in {j \in DOMAIN RulesOfCall : RulesOfCall[j].rule_type = "token"}}

\* C16: for a token rule, before post-processing, each application of the
\* rule gives exactly one statement per stream index i whose token,
\* lowercased, is one of the whitespace-separated words of the pattern,
\* lowercased, and none for any other index; the statement has subject = the
\* token's original text, confidence 0.8, token_position = i and context =
\* the token values at indices max(0, i-2) .. min(n-1, i+2) in stream order.
C16_TokenRuleStatements ==
    (outcome = "ok") =>
        \A r \in TokenRulesUsed :
            /\ \A j \in AllFrom(r) : raw[j].position \in 0..(Len(parsed) - 1)
            /\ \A i \in 0..(Len(parsed) - 1) :
                  IF i \in TokenHitIndices(r)
                    THEN /\ Cardinality(FromRule(r, i)) = Mult(r)
                         /\ \A j \in FromRule(r, i) :
                               /\ raw[j].subject = parsed[i + 1]
                               /\ raw[j].confidence = TokenConfidence
                               /\ raw[j].context = ContextAround(i)
                    ELSE FromRule(r, i) = {}

\* a token rule applied to the five-token stream: a hit whose window is cut
\* at the start, a hit whose window is whole, and indices without a hit
C16_Witness ==
    /\ outcome = "ok"
    /\ parsed = ScenarioA
    /\ TokRule \in TokenRulesUsed
    /\ \E j \in AllFrom(TokRule) : raw[j].position = 0 /\ Len(raw[j].context) = 3
    /\ \E j \in AllFrom(TokRule) : raw[j].position = 2 /\ Len(raw[j].context) = 5
    /\ FromRule(TokRule, 4) = {}

\* the sequence rules with a pattern of one word or more in the list the
\* last call used
SequenceRulesUsed ==
    {RulesOfCall[i] : i \in {j \in DOMAIN RulesOfCall :
                                 /\ RulesOfCall[j].rule_type = "sequence"
                                 /\ Len(RulesOfCall[j].pattern) >= 1}}

\* C17: for a sequence rule whose pattern has k >= 1 words, before
\* post-processing, each application of the rule gives exactly one statement
\* per start index i such that tokens i..i+k-1, lowercased, are the pattern
\* words, lowercased (overlapping runs included), and none otherwise; its
\* subject is token i's original text, its object is token i+k-1's original
\* text when k > 1 and "self" when k = 1, and its confidence is 0.9.
C17_SequenceRuleStatements ==
    (outcome = "ok") =>
        \A r \in SequenceRulesUsed :
            /\ \A j \in AllFrom(r) : raw[j].position \in 0..(Len(parsed) - 1)
            /\ \A i \in 0..(Len(parsed) - 1) :
                  IF RunAt(r, i)
                    THEN /\ Cardinality(FromRule(r, i)) = Mult(r)
                         /\ \A j \in FromRule(r, i) :
                               /\ raw[j].subject = parsed[i + 1]
                               /\ raw[j].object = IF Len(r.pattern) > 1
                                                    THEN parsed[i + Len(r.pattern)]
                                                    ELSE "self"
                               /\ raw[j].confidence = SequenceConfidence
                    ELSE FromRule(r, i) = {}

\* a call with a two-word rule that matched two overlapping runs and a
\* one-word rule that matched
C17_Witness ==
    /\ outcome = "ok"
    /\ \E r \in SequenceRulesUsed :
          /\ Len(r.pattern) = 2
          /\ FromRule(r, 0) # {}
          /\ FromRule(r, 1) # {}
    /\ \E r \in SequenceRulesUsed :
          /\ Len(r.pattern) = 1
          /\ \E j \in AllFrom(r) : raw[j].object = "self"

\* C19: for every rule list of successfully constructed Rules, of any
\* rule_type and any pattern the constructor accepts (the empty pattern
\* included), and every token stream (the empty one included), apply_rules
\* completes and returns a list of statements: no error surfaces at use time.
\* Stated for engines built with enable_caching=False, which make no cache
\* lookup.
C19_NoErrorAtUseTime ==
    (calls > 0 /\ ~enable_caching) => outcome = "ok"

\* C20: apply_rules leaves its inputs unchanged: after any call the token
\* stream, every field of every supplied Rule and the engine's built-in rule
\* list are equal to what they were before the call.
C20_InputsUnchanged ==
    [][calls' = calls + 1 =>
          /\ parsed' = parsed
          /\ custom' = custom
          /\ builtin_rules' = builtin_rules]_vars

\* two calls with a non-empty custom list, the second of which returned
\* statements
C20_Witness ==
    /\ calls = 2
    /\ outcome = "ok"
    /\ custom # None
    /\ Len(custom[1]) > 0
    /\ result # <<>>
    /\ builtin_rules = BuiltinRules

-----------------------------------------------------------------------------
(* Properties of the constructors *)

\* the arguments C18 calls invalid for a Rule
InvalidRuleArgs(a) ==
    \/ a.rule_type \notin {"regex", "token", "sequence", "custom"}
    \/ a.rule_type = "regex" /\ ~Compiles(a.pattern)
    \/ a.priority < 0
    \/ a.priority > 100

\* the arguments C18 calls invalid for a statement
InvalidStatementArgs(a) ==
    \/ a.confidence < 0
    \/ a.confidence > 100
    \/ a.subject = ""
    \/ a.predicate = ""
    \/ a.object = ""

\* C18: constructing a Rule fails with a validation error exactly when its
\* rule_type is not one of regex/token/sequence/custom, or it is a regex rule
\* whose pattern does not compile, or its priority is outside [0, 100];
\* constructing a statement fails exactly when its confidence is outside
\* [0, 1] or its subject, predicate or object is empty; otherwise the object
\* exists, so no invalid Rule or statement ever exists.
C18_ConstructionFailsExactlyWhenInvalid ==
    /\ ctor_kind = "Rule" =>
          ctor_out = IF InvalidRuleArgs(ctor_args[1]) THEN "ValueError" ELSE "object"
    /\ ctor_kind = "LogicStatement" =>
          ctor_out = IF InvalidStatementArgs(ctor_args[1]) THEN "ValueError" ELSE "object"

\* the statements at other positions of the list that have the subject or
\* the object of the statement at position i
OthersSharing(statements, i) ==
    Cardinality({j \in DOMAIN statements \ {i} :
                    \/ statements[j].subject = statements[i].subject
                    \/ statements[j].object = statements[i].object})

\* min(1.0, c + 0.05 k), in hundredths
Reinforced(c, k) ==
    IF c + BoostPerSupporter * k <= MaxConfidence
      THEN c + BoostPerSupporter * k
      ELSE MaxConfidence

\* C24: apply_rules returns the deduplicated statements in the same number
\* and order; each one is unchanged except for its confidence, which is
\* min(1.0, c + 0.05 k) for its confidence c after deduplication and the
\* number k of other deduplicated statements with its subject or its
\* object, whatever boosts the statements before it have received.
C24_ReinforcementFormula ==
    (outcome = "ok") =>
        /\ Len(result) = Len(merged)
        /\ \A i \in DOMAIN merged :
              result[i] =
                [merged[i] EXCEPT
                   !.confidence = Reinforced(@, OthersSharing(merged, i))]

\* among the returned statements one was boosted and a later one, which
\* shares its subject or object, was boosted by its full amount; the sum
\* of one statement passed 1.0 and was cut
C24_Witness ==
    /\ outcome = "ok"
    /\ \E i, j \in DOMAIN merged :
          /\ i < j
          /\ \/ merged[i].subject = merged[j].subject
             \/ merged[i].object = merged[j].object
          /\ result[i].confidence > merged[i].confidence
          /\ result[j].confidence
               = merged[j].confidence
                   + BoostPerSupporter * OthersSharing(merged, j)
    /\ \E i \in DOMAIN merged :
          merged[i].confidence + BoostPerSupporter * OthersSharing(merged, i)
            > MaxConfidence

\* the position in the list rs of the rule that built the statement st, when
\* the names of the rules of rs are all different
RuleIndex(rs, st) == CHOOSE i \in DOMAIN rs : rs[i].name = st.rule

\* no two rules of rs have the same name
DistinctNames(rs) ==
    \A i, j \in DOMAIN rs : rs[i].name = rs[j].name => i = j

\* C26: rule priority has no effect.  The statements come out in the order
\* of the rule list, and a call with a list that differs from the list of
\* the call before only in the priority values of its rules ends as that
\* call did, with the same statements in the same order with the same
\* confidences.
C26_PriorityIsAdvisory ==
    [][calls' = calls + 1 =>
          /\ (outcome' = "ok" /\ DistinctNames(RulesUsed(custom, builtin_rules))) =>
                \A i, j \in DOMAIN raw' :
                    i < j => RuleIndex(RulesUsed(custom, builtin_rules), raw'[i])
                               <= RuleIndex(RulesUsed(custom, builtin_rules), raw'[j])
          /\ calls > 0 => (outcome' = outcome /\ result' = result)]_vars

\* the second call used a list in which the rule with the lowest priority
\* comes first and the one with the highest second, and returned a statement
\* of the first rule before a statement of the second
C26_Witness ==
    /\ calls = 2
    /\ outcome = "ok"
    /\ Len(custom[1]) = 2
    /\ custom[1][1].priority = MinPriority
    /\ custom[1][2].priority = MaxPriority
    /\ Len(result) >= 2
    /\ result[1].rule = custom[1][1].name
    /\ result[Len(result)].rule = custom[1][2].name
    /\ custom[1][1].name # custom[1][2].name

\* C30: a rule whose enabled flag is false contributes no statement to the
\* result of apply_rules: every returned statement was built by a rule of
\* the list that is enabled.
C30_DisabledRuleIsSilent ==
    (outcome = "ok") =>
        \A i \in DOMAIN result :
            \E k \in DOMAIN RulesUsed(custom, builtin_rules) :
                /\ RulesUsed(custom, builtin_rules)[k].name = result[i].rule
                /\ RulesUsed(custom, builtin_rules)[k].enabled

\* what apply_rules does on an engine that was just built: the exception
\* that leaves it, or "ok"
FreshOutcome ==
    LET err == CallError(enable_caching, RulesUsed(custom, BuiltinRules), parsed)
    IN  IF err # "none" THEN err ELSE "ok"

\* the list apply_rules returns on an engine that was just built
FreshResult ==
    CalculateConfidenceScores(
        MergeDuplicateStatements(
            ApplyAllRules(RulesUsed(custom, BuiltinRules), parsed, 1)))

\* C27: engine instances do not interfere.  Whatever add_rule and
\* apply_rules calls were made on one engine, the built-in rule list of the
\* other engine is the one its constructor made, and apply_rules on the
\* other engine ends as it does on an engine that was just built.
C27_InstancesIndependent ==
    /\ other_builtin_rules = BuiltinRules
    /\ other_outcome # "none" =>
          /\ other_outcome = FreshOutcome
          /\ other_outcome = "ok" => other_result = FreshResult

\* a rule was added to the first engine and changed what its apply_rules
\* returns for the built-in rules; the second engine returned statements
\* for the same arguments
C27_Witness ==
    /\ Len(builtin_rules) > Len(BuiltinRules)
    /\ calls > 0
    /\ custom = None
    /\ outcome = "ok"
    /\ other_outcome = "ok"
    /\ other_result # <<>>
    /\ result # other_result

=============================================================================
